---------------------------- MODULE Spec2Model ----------------------------
(***************************************************************************)
(* A model of the reddit thread analyzer: the URL parser and the thread    *)
(* fetch of reddit_fetcher.py, the LLM client of ai_processor.py, the      *)
(* orchestrator process_reddit_thread of main.py and the form handler of   *)
(* app.py.                                                                 *)
(*                                                                         *)
(* Text is modelled as a sequence of lexemes.  A URL is a sequence of      *)
(* tokens: the delimiters "/", "?", "#", ":" and words, a word being a     *)
(* maximal run of other characters, so two words are never adjacent.  An   *)
(* LLM response text is a sequence of tokens, each token a sequence of     *)
(* characters, so that substring scans work on the characters.             *)
(***************************************************************************)
EXTENDS Integers, Sequences, FiniteSets, TLC

VARIABLES
    \* the pure-function harness of extract_submission_id
    u_url, u_out,
    \* the pure-function harness of summarize_text
    s_text, s_resp, s_out, s_net,
    \* the pure-function harness of analyze_comment_relevance
    r_resp, r_out, r_net,
    \* one request through app.index / main.process_reddit_thread
    env, pc, caller, form, thread_url, comment_limit, listing, submission,
    comments, idx, summary, results, ret, netlog, calls, view, flash

url_vars == <<u_url, u_out>>
sum_vars == <<s_text, s_resp, s_out, s_net>>
rel_vars == <<r_resp, r_out, r_net>>
proc_vars == <<env, pc, caller, form, thread_url, comment_limit, listing,
               submission, comments, idx, summary, results, ret, netlog,
               calls, view, flash>>
vars == <<url_vars, sum_vars, rel_vars, proc_vars>>

(***************************************************************************)
(* Bounds of the model.                                                    *)
(***************************************************************************)
MaxTail == 7
MaxTextLen == 11
MaxComments == 2
MaxPad == 2

(***************************************************************************)
(* Python values: None, and helpers on sequences.                          *)
(***************************************************************************)
None == [t |-> "None"]
Pending == [t |-> "pending"]

Min(a, b) == IF a < b THEN a ELSE b
Max(a, b) == IF a > b THEN a ELSE b

RECURSIVE Flatten(_)
Flatten(ss) == IF ss = <<>> THEN <<>> ELSE Head(ss) \o Flatten(Tail(ss))

\* a slip: the list is not truncated
PySliceAll(s, n) == s
\* s[:n] of Python, for any integer n
PySliceTo(s, n) ==
    IF n >= 0 THEN SubSeq(s, 1, Min(n, Len(s)))
    ELSE SubSeq(s, 1, Max(0, Len(s) + n))

\* the sequences over S of length 0..n
SeqsUpTo(S, n) == UNION {[1..k -> S] : k \in 0..n}

\* the first index i >= from with s[i] in S, or 0
RECURSIVE FirstIn(_, _, _)
FirstIn(s, from, S) ==
    IF from > Len(s) THEN 0
    ELSE IF s[from] \in S THEN from
    ELSE FirstIn(s, from + 1, S)

(***************************************************************************)
(* URLs: reddit_fetcher.extract_submission_id and app.validate_reddit_url  *)
(***************************************************************************)
UrlDelims == {"/", "?", "#", ":"}
IsWord(t) == t \notin UrlDelims

\* words made only of the characters of [\w\-]
WordCharWords == {"r", "python", "comments", "abc123", "title", "https", "http"}
\* words urlsplit accepts as a scheme (letters, digits, "+", "-", ".")
SchemeWords == {"https", "http"}

\* urllib.parse.urlparse(url).path: drop "scheme:", drop "//netloc", cut at
\* the first "?" or "#"
AfterScheme(url) ==
    IF Len(url) >= 2 /\ url[1] \in SchemeWords /\ url[2] = ":"
    THEN SubSeq(url, 3, Len(url)) ELSE url

AfterNetloc(rest) ==
    IF Len(rest) >= 2 /\ rest[1] = "/" /\ rest[2] = "/"
    THEN LET e == FirstIn(rest, 3, {"/", "?", "#"})
         IN  IF e = 0 THEN <<>> ELSE SubSeq(rest, e, Len(rest))
    ELSE rest

UrlPath(url) ==
    LET rest == AfterNetloc(AfterScheme(url))
        e == FirstIn(rest, 1, {"?", "#"})
    IN  IF e = 0 THEN rest ELSE SubSeq(rest, 1, e - 1)

\* url_path.split('/'): the segments between the slashes, empty ones kept
RECURSIVE SplitSlash(_)
SplitSlash(p) ==
    LET e == FirstIn(p, 1, {"/"})
    IN  IF e = 0 THEN <<p>>
        ELSE <<SubSeq(p, 1, e - 1)>> \o SplitSlash(SubSeq(p, e + 1, Len(p)))

\* [p for p in url_path.split('/') if p]
NonEmptySeg(seg) == seg # <<>>
PathParts(url) == SelectSeq(SplitSlash(UrlPath(url)), NonEmptySeg)

\* parts.index('comments'), 0 when 'comments' is not in parts
CommentsIndex(parts) == FirstIn(parts, 1, {<<"comments">>})

ValueError == [ok |-> FALSE, id |-> <<>>]
Returned(seg) == [ok |-> TRUE, id |-> seg]

extract_submission_id(url) ==
    LET parts == PathParts(url)
        ci == CommentsIndex(parts)
    IN  IF ci # 0 /\ ci + 1 <= Len(parts) THEN Returned(parts[ci + 1])
        ELSE ValueError

\* re.compile(r'^https?://(www\.)?reddit\.com/r/[\w\-]+/comments/').match(url)
RedditHosts == {"www.reddit.com", "reddit.com"}
validate_reddit_url(url) ==
    /\ Len(url) >= 12
    /\ url[1] \in {"http", "https"}
    /\ url[2] = ":" /\ url[3] = "/" /\ url[4] = "/"
    /\ url[5] \in RedditHosts
    /\ url[6] = "/" /\ url[7] = "r" /\ url[8] = "/"
    /\ url[9] \in WordCharWords
    /\ url[10] = "/" /\ url[11] = "comments" /\ url[12] = "/"

(***************************************************************************)
(* Text of comments and of LLM responses.  A character is a string of      *)
(* length one; a fixed message of the program is a single lexeme.          *)
(***************************************************************************)
Whitespace == {" ", "\n"}

Str(chars) == [t |-> "str", v |-> chars]

\* str.lower() on the letters the model uses
Lower(c) ==
    CASE c = "Y" -> "y" [] c = "N" -> "n" [] c = "S" -> "s"
      [] c = "I" -> "i" [] c = "E" -> "e" [] c = "O" -> "o"
      [] OTHER -> c
LowerAll(chars) == [i \in 1..Len(chars) |-> Lower(chars[i])]

\* sub in text
Contains(sub, text) ==
    \E i \in 1..(Len(text) - Len(sub) + 1) :
        SubSeq(text, i, i + Len(sub) - 1) = sub

\* str.strip() on a sequence of characters
RECURSIVE LStrip(_)
LStrip(chars) ==
    IF chars # <<>> /\ Head(chars) \in Whitespace THEN LStrip(Tail(chars))
    ELSE chars
RECURSIVE RStrip(_)
RStrip(chars) ==
    IF chars # <<>> /\ chars[Len(chars)] \in Whitespace
    THEN RStrip(SubSeq(chars, 1, Len(chars) - 1))
    ELSE chars
Strip(chars) == RStrip(LStrip(chars))

\* the tokens of a response text
IsWsTok(tok) == \A i \in 1..Len(tok) : tok[i] \in Whitespace
RECURSIVE LStripToks(_)
LStripToks(toks) ==
    IF toks # <<>> /\ IsWsTok(Head(toks)) THEN LStripToks(Tail(toks))
    ELSE toks
RECURSIVE RStripToks(_)
RStripToks(toks) ==
    IF toks # <<>> /\ IsWsTok(toks[Len(toks)])
    THEN RStripToks(SubSeq(toks, 1, Len(toks) - 1))
    ELSE toks
\* content.strip() on tokens: whitespace stands only in whitespace tokens
StripToks(toks) == RStripToks(LStripToks(toks))

(***************************************************************************)
(* json.loads on the tokens of a text.                                     *)
(***************************************************************************)
WS == <<" ">>
LB == <<"{">>
RB == <<"}">>
COLON == <<":">>
COMMA == <<",">>
Quoted(chars) == <<"\"">> \o chars \o <<"\"">>
IsStrTok(tok) == Len(tok) >= 2 /\ tok[1] = "\"" /\ tok[Len(tok)] = "\""
StrVal(tok) == SubSeq(tok, 2, Len(tok) - 1)
LitNull == <<"n", "u", "l", "l">>
LitTrue == <<"t", "r", "u", "e">>
LitFalse == <<"f", "a", "l", "s", "e">>

JNull == [t |-> "null", v |-> <<>>]
JBool(tok) == [t |-> "bool", v |-> tok]
JObj(src) == [t |-> "obj", v |-> src]

NotWsTok(tok) == ~IsWsTok(tok)
ParseFail == [ok |-> FALSE, pos |-> 0, val |-> JNull]
Parsed(pos, val) == [ok |-> TRUE, pos |-> pos, val |-> val]
EmptyDict == [k \in {} |-> JNull]
DictPut(d, key, val) ==
    [k \in DOMAIN d \cup {key} |-> IF k = key THEN val ELSE d[k]]

RECURSIVE ParseValue(_, _), ParseMembers(_, _, _)
\* a JSON value starting at toks[p]; val of an object is its dict
ParseValue(toks, p) ==
    IF p > Len(toks) THEN ParseFail
    ELSE IF IsStrTok(toks[p]) THEN Parsed(p + 1, Str(StrVal(toks[p])))
    ELSE IF toks[p] = LitNull THEN Parsed(p + 1, JNull)
    ELSE IF toks[p] \in {LitTrue, LitFalse} THEN Parsed(p + 1, JBool(toks[p]))
    ELSE IF toks[p] = LB THEN
        IF p + 1 <= Len(toks) /\ toks[p + 1] = RB
        THEN Parsed(p + 2, EmptyDict)
        ELSE ParseMembers(toks, p + 1, EmptyDict)
    ELSE ParseFail
\* "key": value pairs from toks[p] up to the closing brace
ParseMembers(toks, p, acc) ==
    IF p + 1 > Len(toks) \/ ~IsStrTok(toks[p]) \/ toks[p + 1] # COLON
    THEN ParseFail
    ELSE LET r == ParseValue(toks, p + 2)
             v == IF r.ok /\ toks[p + 2] = LB
                  THEN JObj(Flatten(SubSeq(toks, p + 2, r.pos - 1)))
                  ELSE r.val
             d == DictPut(acc, StrVal(toks[p]), v)
         IN  IF ~r.ok \/ r.pos > Len(toks) THEN ParseFail
             ELSE IF toks[r.pos] = RB THEN Parsed(r.pos + 1, d)
             ELSE IF toks[r.pos] = COMMA THEN ParseMembers(toks, r.pos + 1, d)
             ELSE ParseFail

\* json.loads(json_str) for a json_str that starts with "{": the dict, or
\* JSONDecodeError
JSONDecodeError == [ok |-> FALSE, val |-> EmptyDict]
json_loads(toks) ==
    LET js == SelectSeq(toks, NotWsTok)
        r == ParseValue(js, 1)
    IN  IF r.ok /\ r.pos = Len(js) + 1 THEN [ok |-> TRUE, val |-> r.val]
        ELSE JSONDecodeError

\* re.search(r'\{[\s\S]*\}', content).group(0): from the first "{" to the
\* last "}", or <<>> when there is no match
RECURSIVE LastIn(_, _, _)
LastIn(s, from, S) ==
    IF from < 1 THEN 0
    ELSE IF s[from] \in S THEN from
    ELSE LastIn(s, from - 1, S)
json_match(content) ==
    LET f == FirstIn(content, 1, {LB})
        l == LastIn(content, Len(content), {RB})
    IN  IF f # 0 /\ l > f THEN SubSeq(content, f, l) ELSE <<>>

(***************************************************************************)
(* ai_processor.py: the LLM client.  An HTTP outcome is what the gateway   *)
(* answers to one POST: an error (connection failure, 4xx, 5xx) or a JSON  *)
(* body of one of four shapes.                                             *)
(***************************************************************************)
MinSummarizeLen == 10

HttpFailed == [http |-> "error", shape |-> "none", content |-> <<>>]
HttpBody(shape, content) == [http |-> "ok", shape |-> shape, content |-> content]
BodyShapes == {"no_choices", "empty_choices", "null_content", "text"}

\* make_openrouter_request: None on a RequestException, else response.json()
make_openrouter_request(resp) ==
    IF resp.http = "error" THEN None
    ELSE [t |-> "json", shape |-> resp.shape, content |-> resp.content]

\* response and 'choices' in response and len(response['choices']) > 0
HasChoices(response) ==
    response # None /\ response.shape \in {"null_content", "text"}

TooShortMarker == Str(<<"Text too short to summarize">>)

\* a slip: the threshold off by one
TooShortOffByOne(text) == text = <<>> \/ Len(Strip(text)) < MinSummarizeLen - 1
\* not text or len(text.strip()) < 10
TooShort(text) == text = <<>> \/ Len(Strip(text)) < MinSummarizeLen

\* summarize_text: ret is what it returns, net the number of HTTP requests
\* it issued
summarize_text(text, resp) ==
    IF TooShort(text) THEN [ret |-> TooShortMarker, net |-> 0]
    ELSE LET response == make_openrouter_request(resp)
         IN  [ret |-> IF HasChoices(response)
                        THEN IF response.shape = "null_content"
                             THEN None  \* None.strip() raises, caught
                             ELSE Str(Flatten(StripToks(response.content)))
                        ELSE None,
              net |-> 1]

K_is_relevant == <<"i", "s", "_", "r", "e", "l", "e", "v", "a", "n", "t">>
K_reasoning == <<"r", "e", "a", "s", "o", "n", "i", "n", "g">>
W_yes == <<"y", "e", "s">>
W_somewhat == <<"s", "o", "m", "e", "w", "h", "a", "t">>
W_no == <<"n", "o">>
W_unknown == <<"u", "n", "k", "n", "o", "w", "n">>

Dict(d) == [t |-> "dict", d |-> d]
Relevance(is_relevant, reasoning) ==
    Dict((K_is_relevant :> is_relevant) @@ (K_reasoning :> reasoning))

\* a slip: "no" is looked for before "yes"
FallbackVerdictNoFirst(content) ==
    LET low == LowerAll(Flatten(content))
    IN  IF Contains(W_no, low) THEN W_no
        ELSE IF Contains(W_yes, low) THEN W_yes
        ELSE IF Contains(W_somewhat, low) THEN W_somewhat
        ELSE W_unknown
\* the keyword scan of lines 189-196
FallbackVerdict(content) ==
    LET low == LowerAll(Flatten(content))
    IN  IF Contains(W_yes, low) THEN W_yes
        ELSE IF Contains(W_somewhat, low) THEN W_somewhat
        ELSE IF Contains(W_no, low) THEN W_no
        ELSE W_unknown

\* lines 175-186: the dict parsed from the greedy match when it has both
\* keys, else None (no match, JSONDecodeError, or a key missing)
ExtractJson(content) ==
    LET js == json_match(content)
        parsed == json_loads(js)
    IN  IF js # <<>> /\ parsed.ok
           /\ K_is_relevant \in DOMAIN parsed.val
           /\ K_reasoning \in DOMAIN parsed.val
        THEN Dict(parsed.val)
        ELSE None

\* analyze_comment_relevance: ret is what it returns, net the number of HTTP
\* requests it issued
analyze_comment_relevance(original_post, comment_text, resp) ==
    IF original_post = <<>> \/ comment_text = <<>>
    THEN [ret |-> Relevance(Str(W_unknown),
                            Str(<<"Missing original post or comment text">>)),
          net |-> 0]
    ELSE LET response == make_openrouter_request(resp)
             content == StripToks(response.content)
             result == ExtractJson(content)
         IN  [ret |-> IF HasChoices(response)
                        THEN IF response.shape = "null_content"
                             THEN None  \* None.strip() raises, caught
                             ELSE IF result # None THEN result
                             ELSE Relevance(Str(FallbackVerdict(content)),
                                            Str(Flatten(content)))
                        ELSE None,
              net |-> 1]

(***************************************************************************)
(* Values of the variables of a harness or of the request that is not      *)
(* running.                                                                *)
(***************************************************************************)
UrlIdle == u_url = <<>> /\ u_out = Pending
SumIdle == s_text = <<>> /\ s_resp = HttpFailed /\ s_out = Pending /\ s_net = 0
RelIdle == r_resp = HttpFailed /\ r_out = Pending /\ r_net = 0

(***************************************************************************)
(* SpecUrl: extract_submission_id applied to a URL.                        *)
(***************************************************************************)
UrlPrefixes ==
    { <<>>,
      <<"https", ":", "/", "/", "www.reddit.com">>,
      <<"https", ":", "/", "/", "www.reddit.com", "/", "r">>,
      <<"https", ":", "/", "/", "www.reddit.com", "/", "r", "/", "python">>,
      <<"https", ":", "/", "/", "comments">> }
TailTokens == {"/", "?", "comments", "abc123"}

\* no two words are adjacent: a word is a maximal run
WellFormedUrl(url) ==
    \A i \in 1..(Len(url) - 1) : ~(IsWord(url[i]) /\ IsWord(url[i + 1]))

\* the URLs with a tail of at most n tokens
Urls(n) ==
    {u \in {p \o t : p \in UrlPrefixes, t \in SeqsUpTo(TailTokens, n)} :
        WellFormedUrl(u)}

ApplyExtract ==
    /\ u_out = Pending
    /\ u_out' = extract_submission_id(u_url)
    /\ UNCHANGED <<u_url, sum_vars, rel_vars, proc_vars>>

(***************************************************************************)
(* SpecSum: summarize_text applied to a text, the gateway answering with   *)
(* s_resp if it is asked.                                                  *)
(***************************************************************************)
\* the texts of at most n characters
Texts(n) == SeqsUpTo({" ", "x"}, n)
W_Fine == <<"F", "i", "n", "e">>
SumResponses ==
    { HttpFailed,
      HttpBody("empty_choices", <<>>),
      HttpBody("null_content", <<>>),
      HttpBody("text", <<WS>>),
      HttpBody("text", <<WS, W_Fine, WS>>) }

ApplySummarize ==
    /\ s_out = Pending
    /\ LET r == summarize_text(s_text, s_resp)
       IN  s_out' = r.ret /\ s_net' = r.net
    /\ UNCHANGED <<s_text, s_resp, url_vars, rel_vars, proc_vars>>

(***************************************************************************)
(* SpecRel: analyze_comment_relevance applied to a non-empty post and      *)
(* comment, the gateway answering with r_resp.                             *)
(***************************************************************************)
W_Yes == <<"Y", "e", "s">>
W_know == <<"k", "n", "o", "w">>
W_maybe == <<"m", "a", "y", "b", "e">>
W_ok == <<"o", "k">>
W_result == <<"r", "e", "s", "u", "l", "t">>

\* {"is_relevant": v, "reasoning": r}, r given by its tokens
ObjToksR(v, rtoks) ==
    <<LB, Quoted(K_is_relevant), COLON, WS, v, COMMA, WS,
      Quoted(K_reasoning), COLON, WS>> \o rtoks \o <<RB>>
ObjToks(v, r) == ObjToksR(v, <<r>>)

VerdictToks ==
    { Quoted(W_yes), Quoted(W_somewhat), Quoted(W_no), Quoted(W_maybe),
      LitNull, LitTrue }

MidTexts ==
    {ObjToks(v, Quoted(W_ok)) : v \in VerdictToks}
    \cup { <<>>, <<W_know>>, <<W_unknown>>, <<W_somewhat>>, <<W_maybe>>,
           <<W_no>>,
           \* a key is missing
           <<LB, Quoted(K_is_relevant), COLON, Quoted(W_no), RB>>,
           \* the object is nested in another
           <<LB, Quoted(W_result), COLON>>
               \o ObjToks(Quoted(W_no), Quoted(W_ok)) \o <<RB>>,
           \* an object holds the reasoning
           ObjToksR(Quoted(W_somewhat), <<LB, RB>>),
           \* the closing brace is missing
           SubSeq(ObjToks(Quoted(W_no), Quoted(W_ok)), 1, 11),
           \* a third key
           SubSeq(ObjToks(Quoted(W_no), Quoted(W_ok)), 1, 11)
               \o <<COMMA, Quoted(W_result), COLON, LitNull, RB>> }

PadTokens == {WS, LB, RB, W_Yes}
\* the texts with at most n tokens before and after the middle
Contents(n) ==
    {a \o m \o b : a \in SeqsUpTo(PadTokens, n), m \in MidTexts,
                    b \in SeqsUpTo(PadTokens, n)}

RelResponses(n) ==
    {HttpFailed, HttpBody("no_choices", <<>>), HttpBody("empty_choices", <<>>),
     HttpBody("null_content", <<>>)}
    \cup {HttpBody("text", c) : c \in Contents(n)}

PostText == <<"p", "o", "s", "t">>
CommentText == <<"g", "r", "e", "a", "t", " ", "p", "o", "i", "n", "t">>

ApplyRelevance ==
    /\ r_out = Pending
    /\ LET r == analyze_comment_relevance(PostText, CommentText, r_resp)
       IN  r_out' = r.ret /\ r_net' = r.net
    /\ UNCHANGED <<r_resp, url_vars, sum_vars, proc_vars>>

(***************************************************************************)
(* reddit_fetcher.py and main.py: credentials, the fetch, the orchestrator *)
(***************************************************************************)
\* not x, for x an environment variable or a Python string
Falsy(x) == x = None \/ x.v = <<>>

CredNames == {"REDDIT_CLIENT_ID", "REDDIT_CLIENT_SECRET", "REDDIT_USER_AGENT",
              "OPENROUTER_API_KEY"}
CredValues == {None, Str(<<>>), Str(<<"secret">>)}

\* a slip: the user agent is not looked at
get_reddit_instance_NoAgent(e) ==
    ~(Falsy(e["REDDIT_CLIENT_ID"]) \/ Falsy(e["REDDIT_CLIENT_SECRET"]))
\* get_reddit_instance returns (TRUE) or raises ValueError (FALSE)
get_reddit_instance(e) ==
    ~(Falsy(e["REDDIT_CLIENT_ID"]) \/ Falsy(e["REDDIT_CLIENT_SECRET"])
        \/ Falsy(e["REDDIT_USER_AGENT"]))
\* get_openrouter_client returns (TRUE) or raises ValueError (FALSE)
get_openrouter_client(e) == ~Falsy(e["OPENROUTER_API_KEY"])

\* what the forum answers to a fetch: an error, or the submission and the
\* flattened list of its comments
FetchFailed == [ok |-> FALSE, submission |-> None, listing |-> <<>>]
FetchOk(sub, list) == [ok |-> TRUE, submission |-> sub, listing |-> list]

\* a slip: the fetch goes on when no id could be extracted
fetch_thread_data_AnyUrl(url, limit, outcome) ==
    IF ~outcome.ok
    THEN [submission |-> None, comments |-> <<>>, net |-> 1]
    ELSE [submission |-> outcome.submission,
          comments |-> PySliceTo(outcome.listing, limit), net |-> 1]
\* fetch_thread_data: (submission, comments), and the number of fetches
\* issued to the forum
fetch_thread_data(url, limit, outcome) ==
    IF ~extract_submission_id(url).ok
    THEN [submission |-> None, comments |-> <<>>, net |-> 0]
    ELSE IF ~outcome.ok
    THEN [submission |-> None, comments |-> <<>>, net |-> 1]
    ELSE [submission |-> outcome.submission,
          comments |-> PySliceTo(outcome.listing, limit), net |-> 1]

\* not submission (main.py line 35)
NoSubmission(sub) == sub = None

\* submission.selftext if submission.selftext else submission.title
OpText(sub) == IF sub.selftext # <<>> THEN sub.selftext ELSE sub.title

SummaryFailedMarker == Str(<<"Summarization failed.">>)
RelevanceFailedMarker == Relevance(Str(W_unknown), Str(<<"Analysis failed.">>))

\* a slip: the summary is stored as returned
SummaryAsReturned(sm) == sm
\* summary if summary else "Summarization failed."
SummaryOrMarker(sm) == IF Falsy(sm) THEN SummaryFailedMarker ELSE sm
\* relevance_info if relevance_info else {...'unknown'...}
RelevanceOrMarker(ri) ==
    IF ri = None \/ DOMAIN ri.d = {} THEN RelevanceFailedMarker ELSE ri

CommentData(c, sm, rel) ==
    [id |-> c.id, text |-> c.body, summary |-> sm, relevance |-> rel]

ResultsDict(url, sub, processed) ==
    [t |-> "dict", thread_url |-> url, thread_title |-> sub.title,
     thread_op_text |-> sub.selftext, processed_comments |-> processed]

(***************************************************************************)
(* app.py: the form handler                                                *)
(***************************************************************************)
DefaultCommentLimit == 15
MinCommentLimit == 1
MaxCommentLimit == 50

Digits == <<"0", "1", "2", "3", "4", "5", "6", "7", "8", "9">>
IsDigit(c) == \E i \in 1..10 : Digits[i] = c
DigitVal(c) == (CHOOSE i \in 1..10 : Digits[i] = c) - 1
RECURSIVE DigitsVal(_)
DigitsVal(ds) ==
    IF ds = <<>> THEN 0
    ELSE 10 * DigitsVal(SubSeq(ds, 1, Len(ds) - 1)) + DigitVal(ds[Len(ds)])

\* int(x) of a string: surrounding whitespace, an optional sign, digits
IntError == [ok |-> FALSE, n |-> 0]
PyInt(chars) ==
    LET st == Strip(chars)
        signed == st # <<>> /\ st[1] \in {"+", "-"}
        ds == IF signed THEN Tail(st) ELSE st
    IN  IF ds # <<>> /\ \A i \in 1..Len(ds) : IsDigit(ds[i])
        THEN [ok |-> TRUE,
              n |-> IF signed /\ st[1] = "-" THEN 0 - DigitsVal(ds)
                    ELSE DigitsVal(ds)]
        ELSE IntError

\* request.form.get('comment_limit', 15), then int(comment_limit)
FormLimit(field) ==
    IF field = None THEN [ok |-> TRUE, n |-> DefaultCommentLimit]
    ELSE PyInt(field.v)

\* a slip: zero passes
LimitInRangeFromZero(n) == ~(n < MinCommentLimit - 1 \/ n > MaxCommentLimit)
LimitInRange(n) == ~(n < MinCommentLimit \/ n > MaxCommentLimit)

\* lines 33-48: "" when the form passes, else the flashed message
FormError(f) ==
    LET lim == FormLimit(f.comment_limit)
    IN  IF ~lim.ok THEN "Comment limit must be a number"
        ELSE IF ~LimitInRange(lim.n) THEN "Comment limit must be between 1 and 50"
        ELSE IF Falsy(f.reddit_url) THEN "Reddit URL is required"
        ELSE IF ~validate_reddit_url(f.reddit_url.v)
        THEN "Please enter a valid Reddit thread URL"
        ELSE ""

(***************************************************************************)
(* Spec: requests through the form handler (Post) or the command line      *)
(* (Call), each running process_reddit_thread step by step: one step per   *)
(* blocking call to the forum or to the LLM gateway.                       *)
(***************************************************************************)
NoForm == [reddit_url |-> None, comment_limit |-> None]

\* the state of the request's locals before process_reddit_thread starts
Fresh ==
    /\ listing' = <<>> /\ submission' = None /\ comments' = <<>>
    /\ idx' = 0 /\ summary' = None /\ results' = <<>>
    /\ ret' = Pending /\ netlog' = <<>> /\ calls' = <<>>

ProcIdle ==
    /\ pc = "idle" /\ caller = "none" /\ form = NoForm
    /\ thread_url = <<>> /\ comment_limit = 0
    /\ listing = <<>> /\ submission = None /\ comments = <<>>
    /\ idx = 0 /\ summary = None /\ results = <<>>
    /\ ret = Pending /\ netlog = <<>> /\ calls = <<>>
    /\ view = "none" /\ flash = ""

\* thread URLs: a thread, a thread of r/comments, a listing without an id,
\* another site, no scheme
UrlThread ==
    <<"https", ":", "/", "/", "www.reddit.com", "/", "r", "/", "python", "/",
      "comments", "/", "abc123", "/", "title", "/">>
UrlNoId ==
    <<"https", ":", "/", "/", "reddit.com", "/", "r", "/", "python", "/",
      "comments", "/">>
UrlOtherSite ==
    <<"https", ":", "/", "/", "example.com", "/", "comments", "/", "abc123">>
UrlNoComments ==
    <<"https", ":", "/", "/", "www.reddit.com", "/", "r", "/", "python">>
ThreadUrls == {UrlThread, UrlNoId, UrlOtherSite, UrlNoComments}

FormUrls == {None, Str(<<>>)} \cup {Str(u) : u \in ThreadUrls}
FormLimits ==
    { None, Str(<<>>), Str(<<"a", "b", "c">>), Str(<<"1", ".", "5">>),
      Str(<<"-", "1">>), Str(<<"0">>), Str(<<"1">>), Str(<<" ", "2">>),
      Str(<<"5", "0">>), Str(<<"5", "1">>) }
Forms == [reddit_url : FormUrls, comment_limit : FormLimits]

\* the limits of a command-line run (MAX_COMMENTS_TO_PROCESS)
CallLimits == {0, 1, 15}

\* what the forum may hold
Bodies == {<<>>, <<"o", "k">>, CommentText}
TitleText == <<"t", "i", "t", "l", "e">>
Submissions == { [title |-> TitleText, selftext |-> <<>>],
                 [title |-> TitleText, selftext |-> PostText] }
\* the lists of at most n comments
Listings(n) ==
    {[i \in 1..Len(bs) |-> [id |-> i, body |-> bs[i]]] :
        bs \in SeqsUpTo(Bodies, n)}
FetchOutcomes(n) ==
    {FetchFailed} \cup {FetchOk(sb, l) : sb \in Submissions, l \in Listings(n)}

\* what the gateway may answer to a relevance request during a request;
\* to a summary request it answers with one of SumResponses
ProcRelResponses ==
    { HttpFailed,
      HttpBody("null_content", <<>>),
      HttpBody("text", <<WS>>),
      HttpBody("text", <<W_know>>),
      HttpBody("text", ObjToks(Quoted(W_yes), Quoted(W_ok))),
      HttpBody("text", ObjToks(Quoted(W_maybe), Quoted(W_ok))) }

NetCall(op, i, ok) == [op |-> op, i |-> i, ok |-> ok]
\* an invocation of fetch_thread_data, summarize_text or
\* analyze_comment_relevance by process_reddit_thread, for comment i
Invocation(op, i) == [op |-> op, i |-> i]

\* process_reddit_thread returns r to its caller; lines 62-68 of app.index
\* render the result (a results dict is never empty, so it is truthy)
ReturnTo(r) ==
    /\ ret' = r
    /\ pc' = "done"
    /\ IF caller = "web"
       THEN IF r # None
            THEN view' = "results.html" /\ flash' = ""
            ELSE /\ view' = "index.html"
                 /\ flash' = "Failed to process Reddit thread. Check logs for details."
       ELSE UNCHANGED <<view, flash>>

\* app.index on a POST, up to the call of process_reddit_thread
Post(f) ==
    /\ pc = "idle"
    /\ caller' = "web" /\ form' = f
    /\ Fresh
    /\ IF FormError(f) # ""
       THEN /\ pc' = "done"
            /\ view' = "index.html" /\ flash' = FormError(f)
            /\ thread_url' = <<>> /\ comment_limit' = 0
       ELSE /\ pc' = "init"
            /\ view' = "none" /\ flash' = ""
            /\ thread_url' = f.reddit_url.v
            /\ comment_limit' = FormLimit(f.comment_limit).n
    /\ UNCHANGED <<env, url_vars, sum_vars, rel_vars>>

\* main.py run as a script: process_reddit_thread on the configured URL
Call(url, limit) ==
    /\ pc = "idle"
    /\ caller' = "cli" /\ form' = NoForm
    /\ Fresh
    /\ pc' = "init" /\ view' = "none" /\ flash' = ""
    /\ thread_url' = url /\ comment_limit' = limit
    /\ UNCHANGED <<env, url_vars, sum_vars, rel_vars>>

\* lines 22-31: both clients are set up, or None is returned
Initialize ==
    /\ pc = "init"
    /\ IF get_reddit_instance(env) /\ get_openrouter_client(env)
       THEN pc' = "fetch" /\ UNCHANGED <<ret, view, flash>>
       ELSE ReturnTo(None)
    /\ UNCHANGED <<env, caller, form, thread_url, comment_limit, listing,
                   submission, comments, idx, summary, results, netlog,
                   calls, url_vars, sum_vars, rel_vars>>

\* lines 33-45: the fetch, and None returned when there is no submission
Fetch(outcome) ==
    /\ pc = "fetch"
    /\ LET f == fetch_thread_data(thread_url, comment_limit, outcome)
       IN  /\ submission' = f.submission
           /\ comments' = f.comments
           /\ listing' = IF f.submission = None THEN <<>> ELSE outcome.listing
           /\ netlog' = IF f.net = 1
                        THEN Append(netlog, NetCall("fetch", 0, outcome.ok))
                        ELSE netlog
           /\ calls' = Append(calls, Invocation("fetch", 0))
           /\ IF NoSubmission(f.submission)
              THEN ReturnTo(None) /\ idx' = idx
              ELSE pc' = "loop" /\ idx' = 1 /\ UNCHANGED <<ret, view, flash>>
    /\ UNCHANGED <<env, caller, form, thread_url, comment_limit, summary,
                   results, url_vars, sum_vars, rel_vars>>

\* lines 48-50: a comment without a body is skipped (replace_more(limit=0)
\* leaves only comments in the list, so every element has a body attribute)
Skip ==
    /\ pc = "loop" /\ idx <= Len(comments)
    /\ comments[idx].body = <<>>
    /\ idx' = idx + 1
    /\ UNCHANGED <<env, pc, caller, form, thread_url, comment_limit, listing,
                   submission, comments, summary, results, ret, netlog, calls,
                   view, flash, url_vars, sum_vars, rel_vars>>

\* a variant of lines 64-65 that asks again for a summary that failed
SummarizeAgainOnFailure(resp) ==
    /\ pc = "loop" /\ idx <= Len(comments)
    /\ comments[idx].body # <<>>
    /\ LET r == summarize_text(comments[idx].body, resp)
       IN  /\ summary' = SummaryOrMarker(r.ret)
           /\ netlog' = IF r.net = 1
                        THEN Append(netlog, NetCall("summarize", idx, r.ret # None))
                        ELSE netlog
           /\ pc' = IF r.ret = None THEN "loop" ELSE "relevance"
    /\ calls' = Append(calls, Invocation("summarize", idx))
    /\ UNCHANGED <<env, caller, form, thread_url, comment_limit, listing,
                   submission, comments, idx, results, ret, view, flash,
                   url_vars, sum_vars, rel_vars>>

\* lines 52-65: the comment is summarized
Summarize(resp) ==
    /\ pc = "loop" /\ idx <= Len(comments)
    /\ comments[idx].body # <<>>
    /\ LET r == summarize_text(comments[idx].body, resp)
       IN  /\ summary' = SummaryOrMarker(r.ret)
           /\ netlog' = IF r.net = 1
                        THEN Append(netlog, NetCall("summarize", idx, r.ret # None))
                        ELSE netlog
    /\ calls' = Append(calls, Invocation("summarize", idx))
    /\ pc' = "relevance"
    /\ UNCHANGED <<env, caller, form, thread_url, comment_limit, listing,
                   submission, comments, idx, results, ret, view, flash,
                   url_vars, sum_vars, rel_vars>>

\* lines 67-71: its relevance is analyzed and its record appended
AnalyzeRelevance(resp) ==
    /\ pc = "relevance"
    /\ LET r == analyze_comment_relevance(OpText(submission),
                                          comments[idx].body, resp)
       IN  /\ results' = Append(results,
                                CommentData(comments[idx], summary,
                                            RelevanceOrMarker(r.ret)))
           /\ netlog' = IF r.net = 1
                        THEN Append(netlog, NetCall("relevance", idx, r.ret # None))
                        ELSE netlog
    /\ calls' = Append(calls, Invocation("relevance", idx))
    /\ idx' = idx + 1 /\ pc' = "loop" /\ summary' = None
    /\ UNCHANGED <<env, caller, form, thread_url, comment_limit, listing,
                   submission, comments, ret, view, flash,
                   url_vars, sum_vars, rel_vars>>

\* lines 76-77: the results are returned
Finish ==
    /\ pc = "loop" /\ idx > Len(comments)
    /\ ReturnTo(ResultsDict(thread_url, submission, results))
    /\ UNCHANGED <<env, caller, form, thread_url, comment_limit, listing,
                   submission, comments, idx, summary, results, netlog,
                   calls, url_vars, sum_vars, rel_vars>>

\* the response is sent (or the script ends) and the request's locals are
\* discarded: nothing but the environment outlives a request
Respond ==
    /\ pc = "done"
    /\ pc' = "idle" /\ caller' = "none" /\ form' = NoForm
    /\ thread_url' = <<>> /\ comment_limit' = 0
    /\ Fresh
    /\ view' = "none" /\ flash' = ""
    /\ UNCHANGED <<env, url_vars, sum_vars, rel_vars>>

(***************************************************************************)
(* The specifications.                                                     *)
(***************************************************************************)
Init ==
    /\ env \in [CredNames -> CredValues]
    /\ ProcIdle /\ UrlIdle /\ SumIdle /\ RelIdle

Next ==
    \/ \E f \in Forms : Post(f)
    \/ \E u \in ThreadUrls, n \in CallLimits : Call(u, n)
    \/ Initialize
    \/ \E o \in FetchOutcomes(MaxComments) : Fetch(o)
    \/ Skip
    \/ \E r \in SumResponses : Summarize(r)
    \/ \E r \in ProcRelResponses : AnalyzeRelevance(r)
    \/ Finish
    \/ Respond

Spec == Init /\ [][Next]_vars

EnvSet == [n \in CredNames |-> Str(<<"secret">>)]

InitUrl ==
    /\ u_url \in Urls(MaxTail) /\ u_out = Pending
    /\ env = EnvSet /\ ProcIdle /\ SumIdle /\ RelIdle
NextUrl == ApplyExtract
SpecUrl == InitUrl /\ [][NextUrl]_vars

InitSum ==
    /\ s_text \in Texts(MaxTextLen) /\ s_resp \in SumResponses
    /\ s_out = Pending /\ s_net = 0
    /\ env = EnvSet /\ ProcIdle /\ UrlIdle /\ RelIdle
NextSum == ApplySummarize
SpecSum == InitSum /\ [][NextSum]_vars

InitRel ==
    /\ r_resp \in RelResponses(MaxPad) /\ r_out = Pending /\ r_net = 0
    /\ env = EnvSet /\ ProcIdle /\ UrlIdle /\ SumIdle
NextRel == ApplyRelevance
SpecRel == InitRel /\ [][NextRel]_vars

(***************************************************************************)
(* The claims.                                                             *)
(***************************************************************************)

\* C1 (as stated; SpecUrl): for every occurrence of
\* /comments/<id>/ in the URL, extract_submission_id returns exactly <id>;
\* and when the path has no "comments" segment, or only a last one, it
\* fails with ValueError.
C1_ParserReturnsId ==
    u_out # Pending =>
        /\ \A i \in 1..(Len(u_url) - 4) :
              ( /\ u_url[i] = "/" /\ u_url[i + 1] = "comments"
                /\ u_url[i + 2] = "/" /\ IsWord(u_url[i + 3])
                /\ u_url[i + 4] = "/" )
              => u_out = Returned(<<u_url[i + 3]>>)
        /\ (\A k \in 1..Len(PathParts(u_url)) :
                PathParts(u_url)[k] = <<"comments">> => k = Len(PathParts(u_url)))
           => u_out = ValueError

\* C6 (SpecSum): once summarize_text has been applied to a text of fewer
\* than 10 characters, it has issued no HTTP request and has returned the
\* marker "Text too short to summarize".
C6_ShortInputNoNetwork ==
    (s_out # Pending /\ Len(s_text) < 10) =>
        (s_net = 0 /\ s_out = TooShortMarker)

\* a text of nine characters without whitespace was summarized
C6_Witness ==
    /\ s_out = TooShortMarker /\ s_net = 0
    /\ Len(s_text) = 9 /\ \A i \in 1..9 : s_text[i] = "x"

\* process_reddit_thread has been called in the current request
Invoked ==
    pc \in {"init", "fetch", "loop", "relevance"}
        \/ (pc = "done" /\ ret # Pending)
\* process_reddit_thread has returned a results dict
ReturnedResults == pc = "done" /\ ret # Pending /\ ret # None
HasBody(c) == c.body # <<>>
IsLlmCall(e) == e.op \in {"summarize", "relevance"}

\* C2 (Spec): when process_reddit_thread returns results for comment_limit
\* N, there are at most N records, no record has an empty text, and the
\* records are, in order, the comments with a body among the first N of the
\* forum's list.
C2_AtMostNInOrder ==
    ReturnedResults =>
        LET recs == ret.processed_comments
            first == SubSeq(listing, 1, Min(comment_limit, Len(listing)))
            kept == SelectSeq(first, HasBody)
        IN  /\ Len(recs) <= comment_limit
            /\ \A k \in 1..Len(recs) : recs[k].text # <<>>
            /\ Len(recs) = Len(kept)
            /\ \A k \in 1..Len(recs) :
                  recs[k].id = kept[k].id /\ recs[k].text = kept[k].body

\* the forum held more comments than the limit and one record was returned
C2_Witness ==
    /\ ReturnedResults
    /\ Len(listing) > comment_limit
    /\ Len(ret.processed_comments) = comment_limit
    /\ comment_limit >= 1

\* an empty comment was skipped and the next one processed
C2_SkipReached ==
    /\ ReturnedResults
    /\ Len(comments) = 2 /\ comments[1].body = <<>>
    /\ Len(ret.processed_comments) = 1

\* C3 (Spec): when a credential (client id, client secret, user agent or LLM
\* API key) is unset or empty, an invocation of process_reddit_thread never
\* gets past the set-up of the clients, issues no fetch and no LLM request,
\* and returns None.
C3_MissingCredentialsNoNetwork ==
    (Invoked /\ \E n \in CredNames : Falsy(env[n])) =>
        /\ pc \in {"init", "done"}
        /\ netlog = <<>>
        /\ pc = "done" => ret = None

\* only the user agent is unset and process_reddit_thread returned None
C3_Witness ==
    /\ pc = "done" /\ ret = None /\ netlog = <<>>
    /\ env["REDDIT_USER_AGENT"] = None
    /\ \A n \in CredNames \ {"REDDIT_USER_AGENT"} : ~Falsy(env[n])

\* the fetch has been attempted in the current request
FetchAttempted ==
    pc \in {"loop", "relevance"}
        \/ ( /\ pc = "done" /\ ret # Pending
             /\ \A n \in CredNames : ~Falsy(env[n]) )
\* no id can be extracted from the URL, or the forum answered with an error
FetchHasFailed ==
    ~extract_submission_id(thread_url).ok
        \/ \E k \in 1..Len(netlog) : netlog[k].op = "fetch" /\ ~netlog[k].ok

\* C4 (Spec): no record holds a None summary or relevance; a summarize or
\* relevance call that failed left its marker in the comment's record; and
\* once the fetch has succeeded, process_reddit_thread returns results with
\* a record for every comment that has a body, whatever failed.
C4_FailureNotFatal ==
    /\ \A k \in 1..Len(results) :
          /\ results[k].summary # None /\ results[k].summary.v # <<>>
          /\ results[k].relevance # None
    /\ \A e \in 1..Len(netlog), k \in 1..Len(results) :
          (IsLlmCall(netlog[e]) /\ ~netlog[e].ok
              /\ results[k].id = comments[netlog[e].i].id) =>
            IF netlog[e].op = "summarize"
            THEN results[k].summary = SummaryFailedMarker
            ELSE results[k].relevance.d[K_is_relevant] = Str(W_unknown)
    /\ (pc = "done" /\ ret # Pending /\ submission # None) =>
          /\ ret # None
          /\ ret.processed_comments = results
          /\ Len(results) = Len(SelectSeq(comments, HasBody))

\* both calls failed for the first comment and the second has its record
C4_Witness ==
    /\ ReturnedResults
    /\ Len(ret.processed_comments) = 2
    /\ \E a, b \in 1..Len(netlog) :
          /\ netlog[a] = NetCall("summarize", 1, FALSE)
          /\ netlog[b] = NetCall("relevance", 1, FALSE)

RespText == r_resp.content
HoldsJsonAt(text, i, j) ==
    /\ text[i] = LB /\ text[j] = RB
    /\ LET p == json_loads(SubSeq(text, i, j))
       IN  /\ p.ok
           /\ K_is_relevant \in DOMAIN p.val
           /\ K_reasoning \in DOMAIN p.val
HoldsJson(text) ==
    \E i \in 1..Len(text) : \E j \in i..Len(text) : HoldsJsonAt(text, i, j)
\* analyze_comment_relevance was applied and the gateway answered with text
AnsweredText == r_out # Pending /\ r_resp.http = "ok" /\ r_resp.shape = "text"

\* C7 (as stated; SpecRel): whenever the response text holds
\* a valid JSON object with is_relevant and reasoning, whatever stands
\* around it, analyze_comment_relevance returns a dict with exactly the
\* values the object gives to these two keys.
C7_JsonReturnedVerbatim ==
    AnsweredText =>
        \A i \in 1..Len(RespText) : \A j \in i..Len(RespText) :
            HoldsJsonAt(RespText, i, j) =>
                LET obj == json_loads(SubSeq(RespText, i, j)).val
                IN  /\ r_out # None
                    /\ r_out.d[K_is_relevant] = obj[K_is_relevant]
                    /\ r_out.d[K_reasoning] = obj[K_reasoning]

Verdicts == {Str(W_yes), Str(W_somewhat), Str(W_no), Str(W_unknown)}

\* C9 (as stated; Spec): the verdict of every record of a
\* request is one of yes, somewhat, no, unknown.
C9_VerdictInEnum ==
    \A k \in 1..Len(results) :
        results[k].relevance.d[K_is_relevant] \in Verdicts

\* the form passes: comment_limit (15 when the field is absent) parses as
\* an integer in 1..50, and reddit_url is non-empty and matches the pattern
FormValid(f) ==
    /\ FormLimit(f.comment_limit).ok
    /\ FormLimit(f.comment_limit).n \in 1..50
    /\ f.reddit_url # None /\ f.reddit_url.v # <<>>
    /\ validate_reddit_url(f.reddit_url.v)

\* C10 (Spec): in a request of the form handler, process_reddit_thread is
\* invoked if and only if the form passes; when it is not, the form is shown
\* again with a flashed error and nothing was fetched or asked; when it is
\* and returns None, the form is shown again with an error, and when it
\* returns results, the results view is rendered.
C10_FormGuardsOrchestrator ==
    caller = "web" =>
        /\ Invoked <=> FormValid(form)
        /\ ~Invoked =>
              /\ pc = "done" /\ view = "index.html" /\ flash # ""
              /\ netlog = <<>>
        /\ (pc = "done" /\ Invoked) =>
              IF ret = None THEN view = "index.html" /\ flash # ""
              ELSE view = "results.html" /\ flash = ""

\* a form with a limit of 50 led to the results view with a record
C10_Witness ==
    /\ caller = "web" /\ pc = "done" /\ view = "results.html"
    /\ comment_limit = 50
    /\ Len(ret.processed_comments) >= 1

\* a form with a limit of 51 was shown again, nothing fetched
C10_RejectReached ==
    /\ caller = "web" /\ pc = "done" /\ ret = Pending
    /\ form.comment_limit = Str(<<"5", "1">>) /\ form.reddit_url = Str(UrlThread)
    /\ view = "index.html"


\* the invocations process_reddit_thread makes for the first n comments of
\* cs: for each comment with a body, one summary then one relevance analysis
RECURSIVE ExpectedCalls(_, _)
ExpectedCalls(cs, n) ==
    IF n <= 0 THEN <<>>
    ELSE ExpectedCalls(cs, n - 1) \o
         ( IF HasBody(cs[n])
           THEN <<Invocation("summarize", n), Invocation("relevance", n)>>
           ELSE <<>> )
\* the invocations made when the loop is at comment idx
CallsSoFar ==
    <<Invocation("fetch", 0)>> \o ExpectedCalls(comments, idx - 1) \o
    ( IF pc = "relevance" THEN <<Invocation("summarize", idx)>> ELSE <<>> )
\* the requests on the network that invocation c issued
RequestsOf(c) == {k \in 1..Len(netlog) : netlog[k].op = c.op /\ netlog[k].i = c.i}
\* the position of the invocation that issued request k
CallOf(k) ==
    CHOOSE p \in 1..Len(calls) :
        calls[p].op = netlog[k].op /\ calls[p].i = netlog[k].i

\* C11 (Spec): once the fetch has been invoked, the invocations are the one
\* fetch followed, for each comment with a body in the order of the fetch,
\* by one summarize and then one relevance analysis of that comment; every
\* request on the network belongs to an invocation, no invocation issued
\* more than one, successful or not, and the requests are in the order of
\* their invocations; so the LLM requests number at most twice the comments
\* with a body, and none precedes the fetch.
C11_SequentialNoRetry ==
    calls # <<>> =>
        /\ calls = CallsSoFar
        /\ \A p \in 1..Len(calls) : Cardinality(RequestsOf(calls[p])) <= 1
        /\ \A k \in 1..Len(netlog) :
              \E p \in 1..Len(calls) :
                  calls[p].op = netlog[k].op /\ calls[p].i = netlog[k].i
        /\ \A k, l \in 1..Len(netlog) : k < l => CallOf(k) < CallOf(l)
        /\ Len(SelectSeq(netlog, IsLlmCall))
              <= 2 * Len(SelectSeq(comments, HasBody))
        /\ \A k \in 1..Len(netlog) :
              IsLlmCall(netlog[k]) => (k > 1 /\ netlog[1].op = "fetch")

\* a run over two comments with a body issued four LLM requests after the
\* fetch, the summary request of the first comment having failed
C11_Witness ==
    /\ ReturnedResults
    /\ Len(SelectSeq(comments, HasBody)) = 2
    /\ Len(netlog) = 5
    /\ netlog[2] = NetCall("summarize", 1, FALSE)
    /\ netlog[3] = NetCall("relevance", 1, TRUE)
    /\ netlog[5].op = "relevance" /\ netlog[5].i = 2


\* C12 (as stated; SpecUrl): a URL that validate_reddit_url accepts is one
\* from which extract_submission_id returns a submission id, never
\* ValueError.
C12_ValidatedUrlHasId ==
    (u_out # Pending /\ validate_reddit_url(u_url)) => u_out # ValueError

\* a request of the form whose URL passed validate_reddit_url ended at the
\* extraction of the id: the fetch was invoked, nothing was sent to the
\* forum, and the page shows the message of a failed processing
C12_RequestFailsAtParsing ==
    /\ caller = "web" /\ pc = "done" /\ ret = None
    /\ validate_reddit_url(thread_url)
    /\ calls = <<Invocation("fetch", 0)>> /\ netlog = <<>>
    /\ flash = "Failed to process Reddit thread. Check logs for details."

=============================================================================
